---------------------------- MODULE Spec2Model ----------------------------
(***************************************************************************)
(* A model of the ROS2 service bridge (src/src/main.rs).                   *)
(*                                                                         *)
(*   - sanitize_and_checksum, the pure function that derives the name of   *)
(*     the downstream service from a raw endpoint name;                    *)
(*   - main's setup sequence;                                              *)
(*   - the relay handler given to provide_async, one instance per inbound  *)
(*     request, with its two awaits on the shared ROS2 client.             *)
(*                                                                         *)
(* Strings are sequences of Unicode code points (TLC's strings cannot be   *)
(* taken apart); their UTF-8 bytes are computed by EncodeUtf8.             *)
(***************************************************************************)
EXTENDS Integers, Sequences, FiniteSets, TLC

VARIABLES
    \* ---- sanitize_and_checksum, called on its own
    input,          \* the &str argument, a sequence of code points
    ident,          \* the returned String, or NoIdent before the call
    input2,         \* the argument of a second, independent call
    ident2,         \* the String the second call returned, or NoIdent
    \* ---- main
    mainPc,         \* main's position in the setup sequence
    ros_client_name,\* the sanitized REQUESTER_ENDPOINT name, or NoIdent
    proxy_ros_client,\* the client binding: NoClient, or the name it is bound to
    spinner,        \* the background spin task: "none" or "running" or "stopped"
    provider,       \* the make87 provider: "none", "acquired", "serving"
    \* ---- the relay handler, one instance per accepted inbound request
    pc,             \* pc[r]: the relay's position
    client,         \* client[r]: the binding the relay's Arc points to
    req,            \* req[r]: the Translation2D received
    ros_request,    \* ros_request[r]: the AddTwoIntsRequest built from it
    req_id,         \* req_id[r]: the token async_send_request returned
    reply,          \* reply[r]: the Translation1D the handler returned
    sendCalls,      \* sendCalls[r]: calls of async_send_request made
    recvCalls,      \* recvCalls[r]: calls of async_receive_response made
    replies,        \* replies[r]: values the handler has returned
    \* ---- the ROS2 client and the service behind it
    nextSeq,        \* the client's request sequence number
    wire,           \* wire[t]: the request sent under token t
    answers,        \* answers[t]: what the service answered for token t
    \* ---- the provider loop and the clock
    accepted,       \* inbound requests handed to the handler so far
    failures,       \* relays that ended in SendFailed or ResponseFailed
    now             \* the wall clock

sanVars == <<input, ident, input2, ident2>>
mainVars == <<mainPc, ros_client_name, proxy_ros_client, spinner, provider>>
relayVars == <<pc, client, req, ros_request, req_id, reply, sendCalls,
               recvCalls, replies>>
clientVars == <<nextSeq, wire, answers>>
loopVars == <<accepted, failures, now>>
vars == <<sanVars, mainVars, relayVars, clientVars, loopVars>>

(***************************************************************************)
(* Bounds of the model.                                                    *)
(***************************************************************************)
MaxHead == 2        \* free characters at the start of a sanitizer input
MaxRequests == 2    \* inbound requests accepted in one run
MaxClock == 1       \* ticks of the wall clock
MaxShort == 3       \* characters in each argument of a pair of calls

(***************************************************************************)
(* Characters.                                                             *)
(***************************************************************************)
Underscore == 95

\* The characters inputs are drawn from: a Z 7 _ . and U+00E9 (2 bytes),
\* U+20AC (3 bytes), U+1F600 (4 bytes).
Alphabet == {97, 90, 55, 95, 46, 233, 8364, 128512}

\* char::is_ascii_alphanumeric
is_ascii_alphanumeric(c) ==
    \/ c \in 48..57
    \/ c \in 65..90
    \/ c \in 97..122

\* The UTF-8 encoding of one code point, as str::bytes yields it.
EncodeUtf8(c) ==
    IF c < 128 THEN <<c>>
    ELSE IF c < 2048 THEN <<192 + (c \div 64), 128 + (c % 64)>>
    ELSE IF c < 65536 THEN
        <<224 + (c \div 4096), 128 + ((c \div 64) % 64), 128 + (c % 64)>>
    ELSE <<240 + (c \div 262144), 128 + ((c \div 4096) % 64),
           128 + ((c \div 64) % 64), 128 + (c % 64)>>

\* input.bytes() for the characters lo..hi of s. The range is split in halves
\* only to keep the evaluation shallow; the bytes come out in order.
RECURSIVE BytesOf(_, _, _)
BytesOf(s, lo, hi) ==
    IF lo > hi THEN <<>>
    ELSE IF lo = hi THEN EncodeUtf8(s[lo])
    ELSE LET mid == (lo + hi) \div 2
         IN BytesOf(s, lo, mid) \o BytesOf(s, mid + 1, hi)

bytes(s) == BytesOf(s, 1, Len(s))

(***************************************************************************)
(* sanitize_and_checksum.                                                  *)
(***************************************************************************)
prefix == <<114, 111, 115, 50, 95>>     \* "ros2_"

MAX_TOTAL_LENGTH == 256

Modulus == 1000000007

\* The character pass: for c in input.chars() { push c or '_' }.
SanitizeChar(c) == IF is_ascii_alphanumeric(c) \/ c = Underscore THEN c ELSE Underscore

Sanitized(s) == [i \in 1..Len(s) |-> SanitizeChar(s[i])]

\* (sum * 31) % Modulus. The code multiplies in u64, where sum * 31 + b stays
\* below 2^35 and cannot overflow; TLC's integers have 32 bits, so the product
\* is built here from doublings reduced modulo Modulus, which gives the same
\* number.
Twice(s) == (s + s) % Modulus

Times31(s) == (Twice(Twice(Twice(Twice(Twice(s))))) + Modulus - s) % Modulus

\* A loop that passes over every byte that is not ASCII.
ChecksumStepAsciiOnly(sum, b) ==
    IF b < 128 THEN (Times31(sum) + b) % Modulus ELSE sum

\* One turn of the checksum loop: sum = (sum * 31 + b as u64) % 1_000_000_007.
ChecksumStep(sum, b) == (Times31(sum) + b) % Modulus

\* The checksum loop over bs[lo..hi], entered with sum. The bytes are taken
\* left to right; the range is split in halves only to keep the evaluation
\* shallow, and the test on left makes TLC finish the left half first (a u64
\* is never negative).
RECURSIVE ChecksumFrom(_, _, _, _)
ChecksumFrom(bs, lo, hi, sum) ==
    IF lo > hi THEN sum
    ELSE IF lo = hi THEN ChecksumStep(sum, bs[lo])
    ELSE LET mid == (lo + hi) \div 2
             left == ChecksumFrom(bs, lo, mid, sum)
         IN IF left >= 0 THEN ChecksumFrom(bs, mid + 1, hi, left) ELSE 0

Checksum(s) == LET bs == bytes(s) IN ChecksumFrom(bs, 1, Len(bs), 0)

\* The digits in base 2 instead of base 10.
RECURSIVE to_stringBinary(_)
to_stringBinary(n) ==
    IF n < 2 THEN <<48 + n>>
    ELSE Append(to_stringBinary(n \div 2), 48 + (n % 2))

\* u64::to_string: the decimal digits, most significant first.
RECURSIVE to_string(_)
to_string(n) ==
    IF n < 10 THEN <<48 + n>>
    ELSE Append(to_string(n \div 10), 48 + (n % 10))

\* MAX_TOTAL_LENGTH - prefix_length - checksum_length
max_sanitized_length(checksum) == MAX_TOTAL_LENGTH - Len(prefix) - Len(checksum)

\* if sanitized.len() > max { sanitized.truncate(max) }
TruncateSkipped(sanitized, max) == sanitized

Truncate(sanitized, max) ==
    IF Len(sanitized) > max THEN SubSeq(sanitized, 1, max) ELSE sanitized

\* The checksum taken after the cut instead of over the whole input.
sanitize_and_checksumOfCut(s) ==
    LET cut == IF Len(s) > 241 THEN SubSeq(s, 1, 241) ELSE s
        checksum == to_string(Checksum(cut))
    IN prefix \o Truncate(Sanitized(s), max_sanitized_length(checksum)) \o checksum

sanitize_and_checksum(s) ==
    LET checksum == to_string(Checksum(s))
    IN prefix \o Truncate(Sanitized(s), max_sanitized_length(checksum)) \o checksum


(***************************************************************************)
(* Numbers.  An f32 is a finite value with a half-integer resolution       *)
(* (twice is two times the value), plus or minus 2^63, or NaN.  An i64 is  *)
(* an integer small enough for TLC, or one of the two ends of the range.   *)
(***************************************************************************)
Fin(twice) == [k |-> "fin", twice |-> twice, neg |-> FALSE]
Pow63(neg) == [k |-> "pow63", twice |-> 0, neg |-> neg]
NaN == [k |-> "nan", twice |-> 0, neg |-> FALSE]

I64(v) == [k |-> "int", v |-> v]
I64_MAX == [k |-> "max", v |-> 0]
I64_MIN == [k |-> "min", v |-> 0]

Abs(n) == IF n < 0 THEN -n ELSE n

\* f32 as i64: NaN gives 0, values beyond the range saturate, the fraction is
\* dropped (towards zero).  -2^63 is i64::MIN itself.
CastF32ToI64(f) ==
    CASE f.k = "nan" -> I64(0)
      [] f.k = "pow63" -> IF f.neg THEN I64_MIN ELSE I64_MAX
      [] OTHER -> I64(IF f.twice >= 0 THEN f.twice \div 2 ELSE -((-f.twice) \div 2))

\* The distance between neighbouring f32 values around magnitude m: 1 below
\* 2^24 (24 bits of mantissa), doubling with each further binary digit.
RECURSIVE Ulp(_)
Ulp(m) == IF m < 16777216 THEN 1 ELSE 2 * Ulp(m \div 2)

\* i64 as f32: the nearest f32, ties to the even mantissa.
RoundToF32(v) ==
    LET m == Abs(v)
        u == Ulp(m)
        q == m \div u
        r == m % u
        up == (2 * r > u) \/ (2 * r = u /\ q % 2 = 1)
        n == (IF up THEN q + 1 ELSE q) * u
    IN IF v < 0 THEN -n ELSE n

CastI64ToF32(i) ==
    CASE i.k = "max" -> Pow63(FALSE)
      [] i.k = "min" -> Pow63(TRUE)
      [] OTHER -> Fin(2 * RoundToF32(i.v))

(***************************************************************************)
(* Messages.                                                               *)
(***************************************************************************)
None == [some |-> FALSE, t |-> 0]
Some(t) == [some |-> TRUE, t |-> t]

\* Timestamp::get_current_time()
get_current_time(clock) == Some(clock)

\* The inbound requests of the model: (3.0, 4.0), (16777216.0, 1.0) and
\* (-2.5, 2^63).
InboundRequests ==
    { [x |-> Fin(6), y |-> Fin(8)],
      [x |-> Fin(33554432), y |-> Fin(2)],
      [x |-> Fin(-5), y |-> Pow63(FALSE)] }

\* The sums the service may answer to a request: a + b, as AddTwoInts is
\* meant to (when TLC's integers can hold it), or 0.
DownSums(request) ==
    {I64(0)} \cup
    (IF request.a.k = "int" /\ request.b.k = "int"
     THEN {I64(request.a.v + request.b.v)} ELSE {})

\* Placeholders for fields that hold nothing yet.
NoRequest == [x |-> Fin(0), y |-> Fin(0)]
NoRosRequest == [a |-> I64(0), b |-> I64(0)]
NoReply == [timestamp |-> None, x |-> NaN]
NoAnswer == [st |-> "none", sum |-> I64(0)]
NoIdent == <<>>
NoClient == <<>>

\* AddTwoIntsRequest { a: req.x as i64, b: req.y as i64 }
\* A cast that wraps modulo 2^64: 2^63 comes out as i64::MIN.
WrapF32ToI64(f) ==
    CASE f.k = "nan" -> I64(0)
      [] f.k = "pow63" -> I64_MIN
      [] OTHER -> I64(IF f.twice >= 0 THEN f.twice \div 2 ELSE -((-f.twice) \div 2))

MakeRosRequestWrapping(q) == [a |-> WrapF32ToI64(q.x), b |-> WrapF32ToI64(q.y)]

MakeRosRequestSwapped(q) == [a |-> CastF32ToI64(q.y), b |-> CastF32ToI64(q.x)]

MakeRosRequest(q) == [a |-> CastF32ToI64(q.x), b |-> CastF32ToI64(q.y)]

\* What an arm of the handler's match comes to: a value returned, or a panic.
Return(v) == [panic |-> FALSE, value |-> v]
Panic == [panic |-> TRUE, value |-> NoReply]

\* Ok(response) => Translation1D { timestamp: get_current_time(), x: sum as f32 }
\* The timestamp taken when the process started instead of now.
OkArmStampedAtStart(sum, clock) ==
    Return([timestamp |-> get_current_time(0), x |-> CastI64ToF32(sum)])

OkArmUnstamped(sum, clock) ==
    Return([timestamp |-> None, x |-> CastI64ToF32(sum)])

OkArm(sum, clock) ==
    Return([timestamp |-> get_current_time(clock), x |-> CastI64ToF32(sum)])

\* Err(e) of the response => Translation1D { timestamp: None, x: 0.0 }
RecvErrArmStamped(clock) == Return([timestamp |-> get_current_time(clock), x |-> Fin(0)])

RecvErrArmPanics(clock) == Panic

RecvErrArm(clock) == Return([timestamp |-> None, x |-> Fin(0)])

\* Err(e) of the send => Translation1D { timestamp: None, x: 0.0 }
SendErrArmStamped(clock) == Return([timestamp |-> get_current_time(clock), x |-> Fin(0)])

SendErrArmPanics(clock) == Panic

SendErrArm(clock) == Return([timestamp |-> None, x |-> Fin(0)])

Relays == 1..MaxRequests
Tokens == 1..MaxRequests

\* client.async_receive_response(req_id): the token the relay waits on.
AwaitedTokenLatest(r) == nextSeq - 1

AwaitedToken(r) == req_id[r]

(***************************************************************************)
(* The initial state: the process has started, main has called             *)
(* make87::initialize() and nothing else.                                  *)
(***************************************************************************)
\* The raw name REQUESTER_ENDPOINT resolves to, when it does: "a." U+00E9 "7".
EndpointNames == { <<97, 46, 233, 55>> }

MainInit ==
    /\ mainPc = "context"
    /\ ros_client_name = NoIdent
    /\ proxy_ros_client = NoClient
    /\ spinner = "none"
    /\ provider = "none"

RelayInit ==
    /\ pc = [r \in Relays |-> "Idle"]
    /\ client = [r \in Relays |-> NoClient]
    /\ req = [r \in Relays |-> NoRequest]
    /\ ros_request = [r \in Relays |-> NoRosRequest]
    /\ req_id = [r \in Relays |-> 0]
    /\ reply = [r \in Relays |-> NoReply]
    /\ sendCalls = [r \in Relays |-> 0]
    /\ recvCalls = [r \in Relays |-> 0]
    /\ replies = [r \in Relays |-> 0]
    /\ nextSeq = 1
    /\ wire = [t \in Tokens |-> NoRosRequest]
    /\ answers = [t \in Tokens |-> NoAnswer]
    /\ accepted = 0
    /\ failures = 0
    /\ now = 0

Init ==
    /\ input = <<>>
    /\ ident = NoIdent
    /\ input2 = <<>>
    /\ ident2 = NoIdent
    /\ MainInit
    /\ RelayInit

(***************************************************************************)
(* main: the setup sequence.  A step that fails under `?` makes main       *)
(* return Err ("aborted"); the unwrap of provide_async's result panics.    *)
(***************************************************************************)
\* What `?` does with a step's result.
OnResult(ok, next) == IF ok THEN next ELSE "aborted"

\* let context = Context::new()?;
ContextNew ==
    /\ mainPc = "context"
    /\ \E ok \in BOOLEAN : mainPc' = OnResult(ok, "new_node")
    /\ UNCHANGED <<sanVars, ros_client_name, proxy_ros_client, spinner, provider,
                   relayVars, clientVars, loopVars>>

\* let mut node = context.new_node(NodeName::new(..)?, NodeOptions::new())?;
NewNode ==
    /\ mainPc = "new_node"
    /\ \E ok \in BOOLEAN : mainPc' = OnResult(ok, "resolve_requester")
    /\ UNCHANGED <<sanVars, ros_client_name, proxy_ros_client, spinner, provider,
                   relayVars, clientVars, loopVars>>

\* resolve_endpoint_name("REQUESTER_ENDPOINT").map(sanitize_and_checksum).ok_or_else(..)?
\* The raw endpoint name used as it is.
ResolveRequesterUnsanitized ==
    /\ mainPc = "resolve_requester"
    /\ \/ /\ mainPc' = "aborted"
          /\ UNCHANGED ros_client_name
       \/ \E name \in EndpointNames :
            /\ ros_client_name' = name
            /\ mainPc' = "create_client"
    /\ UNCHANGED <<sanVars, proxy_ros_client, spinner, provider,
                   relayVars, clientVars, loopVars>>

ResolveRequester ==
    /\ mainPc = "resolve_requester"
    /\ \/ /\ mainPc' = "aborted"
          /\ UNCHANGED ros_client_name
       \/ \E name \in EndpointNames :
            /\ ros_client_name' = sanitize_and_checksum(name)
            /\ mainPc' = "create_client"
    /\ UNCHANGED <<sanVars, proxy_ros_client, spinner, provider,
                   relayVars, clientVars, loopVars>>

\* let proxy_ros_client = Arc::new(node.create_client(.., &Name::new("/", &ros_client_name)?, ..)?);
CreateClient ==
    /\ mainPc = "create_client"
    /\ \E ok \in BOOLEAN :
        /\ mainPc' = OnResult(ok, "spinner")
        /\ proxy_ros_client' = IF ok THEN ros_client_name ELSE NoClient
    /\ UNCHANGED <<sanVars, ros_client_name, spinner, provider,
                   relayVars, clientVars, loopVars>>

\* Handle::current().spawn(node.spinner()?.spin());
SpawnSpinner ==
    /\ mainPc = "spinner"
    /\ \E ok \in BOOLEAN :
        /\ mainPc' = OnResult(ok, "resolve_provider")
        /\ spinner' = IF ok THEN "running" ELSE spinner
    /\ UNCHANGED <<sanVars, ros_client_name, proxy_ros_client, provider,
                   relayVars, clientVars, loopVars>>

\* let make87_endpoint_name = resolve_endpoint_name("PROVIDER_ENDPOINT").ok_or_else(..)?;
ResolveProvider ==
    /\ mainPc = "resolve_provider"
    /\ \E ok \in BOOLEAN : mainPc' = OnResult(ok, "get_provider")
    /\ UNCHANGED <<sanVars, ros_client_name, proxy_ros_client, spinner, provider,
                   relayVars, clientVars, loopVars>>

\* let proxy_make87_provider = Arc::new(get_provider(..).ok_or_else(..)?);
GetProvider ==
    /\ mainPc = "get_provider"
    /\ \E ok \in BOOLEAN :
        /\ mainPc' = OnResult(ok, "provide")
        /\ provider' = IF ok THEN "acquired" ELSE provider
    /\ UNCHANGED <<sanVars, ros_client_name, proxy_ros_client, spinner,
                   relayVars, clientVars, loopVars>>

\* proxy_make87_provider.provide_async(handler).await.unwrap(); make87::keep_running();
Provide ==
    /\ mainPc = "provide"
    /\ \E ok \in BOOLEAN :
        /\ mainPc' = IF ok THEN "keep_running" ELSE "panicked"
        /\ provider' = IF ok THEN "serving" ELSE provider
    /\ UNCHANGED <<sanVars, ros_client_name, proxy_ros_client, spinner,
                   relayVars, clientVars, loopVars>>

\* main has returned Err or panicked: the runtime is dropped, its tasks with it,
\* and the process ends.
ProcessExit ==
    /\ mainPc \in {"aborted", "panicked"}
    /\ mainPc' = "exited"
    /\ spinner' = IF spinner = "running" THEN "stopped" ELSE spinner
    /\ UNCHANGED <<sanVars, ros_client_name, proxy_ros_client, provider,
                   relayVars, clientVars, loopVars>>

(***************************************************************************)
(* The relay handler: the closure given to provide_async and the future it *)
(* returns.  Relay r is the r-th inbound request.                          *)
(***************************************************************************)
Terminal == {"Succeeded", "SendFailed", "ResponseFailed"}

\* The provider calls the closure with an inbound request: the closure clones
\* the Arc of the one client and builds the future.
Receive(q) ==
    /\ provider = "serving"
    /\ accepted < MaxRequests
    /\ LET r == accepted + 1 IN
        /\ pc' = [pc EXCEPT ![r] = "Received"]
        /\ client' = [client EXCEPT ![r] = proxy_ros_client]
        /\ req' = [req EXCEPT ![r] = q]
    /\ accepted' = accepted + 1
    /\ UNCHANGED <<sanVars, mainVars, ros_request, req_id, reply, sendCalls,
                   recvCalls, replies, clientVars, failures, now>>

\* println!("Received request"); let ros_request = AddTwoIntsRequest { .. };
Convert(r) ==
    /\ pc[r] = "Received"
    /\ pc' = [pc EXCEPT ![r] = "Converted"]
    /\ ros_request' = [ros_request EXCEPT ![r] = MakeRosRequest(req[r])]
    /\ UNCHANGED <<sanVars, mainVars, client, req, req_id, reply, sendCalls, recvCalls,
                   replies, clientVars, loopVars>>

\* client.async_send_request(ros_request) is called and awaited.
SendAndReceiveAtOnce(r) ==
    /\ pc[r] = "Converted"
    /\ pc' = [pc EXCEPT ![r] = "AwaitingResponse"]
    /\ sendCalls' = [sendCalls EXCEPT ![r] = @ + 1]
    /\ recvCalls' = [recvCalls EXCEPT ![r] = @ + 1]
    /\ UNCHANGED <<sanVars, mainVars, client, req, ros_request, req_id, reply, replies,
                   clientVars, loopVars>>

Send(r) ==
    /\ pc[r] = "Converted"
    /\ pc' = [pc EXCEPT ![r] = "Sent"]
    /\ sendCalls' = [sendCalls EXCEPT ![r] = @ + 1]
    /\ UNCHANGED <<sanVars, mainVars, client, req, ros_request, req_id, reply, recvCalls,
                   replies, clientVars, loopVars>>

\* The send resolves to Ok(req_id): the client has numbered the request and
\* written it; the handler calls client.async_receive_response(req_id).
SendOk(r) ==
    /\ pc[r] = "Sent"
    /\ nextSeq \in Tokens
    /\ req_id' = [req_id EXCEPT ![r] = nextSeq]
    /\ wire' = [wire EXCEPT ![nextSeq] = ros_request[r]]
    /\ answers' = [answers EXCEPT ![nextSeq] = [st |-> "pending", sum |-> I64(0)]]
    /\ nextSeq' = nextSeq + 1
    /\ pc' = [pc EXCEPT ![r] = "AwaitingResponse"]
    /\ recvCalls' = [recvCalls EXCEPT ![r] = @ + 1]
    /\ UNCHANGED <<sanVars, mainVars, client, req, ros_request, reply, sendCalls, replies,
                   loopVars>>

\* How a relay ends with what an arm of the match came to.
Finish(r, state, res) ==
    /\ pc' = [pc EXCEPT ![r] = IF res.panic THEN "Panicked" ELSE state]
    /\ reply' = [reply EXCEPT ![r] = res.value]
    /\ replies' = [replies EXCEPT ![r] = IF res.panic THEN @ ELSE @ + 1]

\* The send resolves to Err(e): the outer Err arm.
SendErrRetry(r) ==
    /\ pc[r] = "Sent"
    /\ sendCalls[r] < 2
    /\ pc' = [pc EXCEPT ![r] = "Converted"]
    /\ failures' = failures + 1
    /\ UNCHANGED <<sanVars, mainVars, client, req, ros_request, req_id, reply, sendCalls,
                   recvCalls, replies, clientVars, accepted, now>>

SendErr(r) ==
    /\ pc[r] = "Sent"
    /\ Finish(r, "SendFailed", SendErrArm(now))
    /\ failures' = failures + 1
    /\ UNCHANGED <<sanVars, mainVars, client, req, ros_request, req_id, sendCalls,
                   recvCalls, clientVars, accepted, now>>

\* The service answers a request that was sent with some sum.
ServiceOk(t, s) ==
    /\ answers[t].st = "pending"
    /\ answers' = [answers EXCEPT ![t] = [st |-> "ok", sum |-> s]]
    /\ UNCHANGED <<sanVars, mainVars, relayVars, nextSeq, wire, loopVars>>

\* The response to a request that was sent cannot be had: the transport
\* reports an error for it.
ServiceErr(t) ==
    /\ answers[t].st = "pending"
    /\ answers' = [answers EXCEPT ![t] = [st |-> "err", sum |-> I64(0)]]
    /\ UNCHANGED <<sanVars, mainVars, relayVars, nextSeq, wire, loopVars>>

\* async_receive_response resolves to Ok(response): the inner Ok arm.
RecvOk(r) ==
    /\ pc[r] = "AwaitingResponse"
    /\ AwaitedToken(r) \in Tokens
    /\ answers[AwaitedToken(r)].st = "ok"
    /\ Finish(r, "Succeeded", OkArm(answers[AwaitedToken(r)].sum, now))
    /\ UNCHANGED <<sanVars, mainVars, client, req, ros_request, req_id, sendCalls,
                   recvCalls, clientVars, loopVars>>

\* async_receive_response resolves to Err(e): the inner Err arm.
RecvErrRetry(r) ==
    /\ pc[r] = "AwaitingResponse"
    /\ AwaitedToken(r) \in Tokens
    /\ answers[AwaitedToken(r)].st = "err"
    /\ pc' = [pc EXCEPT ![r] = "Converted"]
    /\ failures' = failures + 1
    /\ UNCHANGED <<sanVars, mainVars, client, req, ros_request, req_id, reply, sendCalls,
                   recvCalls, replies, clientVars, accepted, now>>

RecvErr(r) ==
    /\ pc[r] = "AwaitingResponse"
    /\ AwaitedToken(r) \in Tokens
    /\ answers[AwaitedToken(r)].st = "err"
    /\ Finish(r, "ResponseFailed", RecvErrArm(now))
    /\ failures' = failures + 1
    /\ UNCHANGED <<sanVars, mainVars, client, req, ros_request, req_id, sendCalls,
                   recvCalls, clientVars, accepted, now>>

\* The provider sends the value the handler returned to the caller; the
\* future and what it held are dropped.
Deliver(r) ==
    /\ pc[r] \in Terminal
    /\ pc' = [pc EXCEPT ![r] = "Done"]
    /\ client' = [client EXCEPT ![r] = NoClient]
    /\ req' = [req EXCEPT ![r] = NoRequest]
    /\ ros_request' = [ros_request EXCEPT ![r] = NoRosRequest]
    /\ reply' = [reply EXCEPT ![r] = NoReply]
    /\ IF req_id[r] \in Tokens
       THEN /\ wire' = [wire EXCEPT ![req_id[r]] = NoRosRequest]
            /\ answers' = [answers EXCEPT ![req_id[r]] = NoAnswer]
       ELSE UNCHANGED <<wire, answers>>
    /\ req_id' = [req_id EXCEPT ![r] = 0]
    /\ UNCHANGED <<sanVars, mainVars, sendCalls, recvCalls, replies, nextSeq,
                   loopVars>>

\* Time passes.
Tick ==
    /\ now < MaxClock
    /\ now' = now + 1
    /\ UNCHANGED <<sanVars, mainVars, relayVars, clientVars, accepted, failures>>

MainStep ==
    \/ ContextNew
    \/ NewNode
    \/ ResolveRequester
    \/ CreateClient
    \/ SpawnSpinner
    \/ ResolveProvider
    \/ GetProvider
    \/ Provide
    \/ ProcessExit

RelayStep(r) ==
    \/ Convert(r)
    \/ Send(r)
    \/ SendOk(r)
    \/ SendErr(r)
    \/ RecvOk(r)
    \/ RecvErr(r)
    \/ Deliver(r)

Next ==
    \/ MainStep
    \/ \E q \in InboundRequests : Receive(q)
    \/ \E r \in Relays : RelayStep(r)
    \/ \E t \in Tokens : \E s \in DownSums(wire[t]) : ServiceOk(t, s)
    \/ \E t \in Tokens : ServiceErr(t)
    \/ Tick

Spec == Init /\ [][Next]_vars

(***************************************************************************)
(* sanitize_and_checksum on its own: the argument is drawn from the        *)
(* strings made of up to MaxHead free characters followed by a run of one  *)
(* character, and the function is applied to it.                           *)
(***************************************************************************)
Fill(c, n) == [i \in 1..n |-> c]

Heads == UNION { [1..k -> Alphabet] : k \in 0..MaxHead }

\* Run lengths around the truncation budget (241 to 250 characters), and 1000.
RunLengths == {0, 240, 241, 242, 250, 251, 1000}

RunChars == {97, 233}

\* Two arguments chosen for their checksums: 245 times 'a' then "lusxie",
\* whose checksum is 1000000000, and "a" U+00E9 "alojini", whose checksum
\* 99431 is also that of its first three bytes.
CraftedInputs ==
    { Fill(97, 245) \o <<108, 117, 115, 120, 105, 101>>,
      <<97, 233, 97, 108, 111, 106, 105, 110, 105>> }

SanInputs ==
    { h \o Fill(c, n) : h \in Heads, c \in RunChars, n \in RunLengths }
        \cup CraftedInputs

SanInit ==
    /\ input \in SanInputs
    /\ ident = NoIdent
    /\ input2 = <<>>
    /\ ident2 = NoIdent
    /\ MainInit
    /\ RelayInit

SanitizeCall ==
    /\ ident = NoIdent
    /\ ident' = sanitize_and_checksum(input)
    /\ UNCHANGED <<input, input2, ident2, mainVars, relayVars, clientVars,
                   loopVars>>

SanNext == SanitizeCall

SanSpec == SanInit /\ [][SanNext]_vars

(***************************************************************************)
(* sanitize_and_checksum called on two short arguments.  The arguments are *)
(* the strings of at most MaxShort characters over ShortAlphabet: control  *)
(* characters, punctuation and a digit, all of one byte.                   *)
(***************************************************************************)
\* U+0000, U+0001, U+0002, TAB, '!', '"', '2', '@'.
ShortAlphabet == {0, 1, 2, 9, 33, 34, 50, 64}

ShortInputs == UNION { [1..k -> ShortAlphabet] : k \in 0..MaxShort }

PairInit ==
    /\ input \in ShortInputs
    /\ input2 \in ShortInputs
    /\ ident = NoIdent
    /\ ident2 = NoIdent
    /\ MainInit
    /\ RelayInit

\* Both calls return; neither touches anything but its own result.
PairCall ==
    /\ ident = NoIdent
    /\ ident2 = NoIdent
    /\ ident' = sanitize_and_checksum(input)
    /\ ident2' = sanitize_and_checksum(input2)
    /\ UNCHANGED <<input, input2, mainVars, relayVars, clientVars, loopVars>>

PairNext == PairCall

PairSpec == PairInit /\ [][PairNext]_vars

(***************************************************************************)
(* Scheduling.  The executor runs every task that can make progress, so a  *)
(* relay's own steps are taken once they can be; the send resolves one way *)
(* or the other (the write is bounded by the QoS max_blocking_time).       *)
(* Nothing obliges callers to send requests or the service to answer.      *)
(* The values carried play no part in whether a relay ends, so the         *)
(* specification with fairness takes one request and one sum and leaves    *)
(* the clock alone.                                                        *)
(***************************************************************************)
LiveRequests == { [x |-> Fin(6), y |-> Fin(8)] }

LiveSums == { I64(7) }

LiveNext ==
    \/ MainStep
    \/ \E q \in LiveRequests : Receive(q)
    \/ \E r \in Relays : RelayStep(r)
    \/ \E t \in Tokens : \E s \in LiveSums : ServiceOk(t, s)
    \/ \E t \in Tokens : ServiceErr(t)

Fairness ==
    \A r \in Relays :
        /\ WF_vars(Convert(r))
        /\ WF_vars(Send(r))
        /\ WF_vars(SendOk(r) \/ SendErr(r))
        /\ WF_vars(RecvOk(r))
        /\ WF_vars(RecvErr(r))
        /\ WF_vars(Deliver(r))

LiveSpec == Init /\ [][LiveNext]_vars /\ Fairness

(***************************************************************************)
(* Properties.                                                             *)
(***************************************************************************)
\* The sentinel OutboundResponse: timestamp absent, x = 0.0.
Sentinel == [timestamp |-> None, x |-> Fin(0)]

\* The relay waits on a token the service has not settled.
Blocked(r) ==
    /\ pc[r] = "AwaitingResponse"
    /\ req_id[r] \in Tokens
    /\ answers[req_id[r]].st = "pending"

\* C1: a relay whose send failed has returned the sentinel (timestamp absent,
\* x = 0) at once: it made one send and no other, never called
\* receive_response, holds no token, returned one value, and no relay has
\* panicked.
C1_SendFailureSentinel ==
    \A r \in Relays :
        /\ pc[r] # "Panicked"
        /\ pc[r] = "SendFailed" =>
            /\ reply[r] = Sentinel
            /\ sendCalls[r] = 1
            /\ recvCalls[r] = 0
            /\ req_id[r] = 0
            /\ replies[r] = 1

C1_Witness ==
    \E r \in Relays : pc[r] = "SendFailed" /\ now > 0

\* C2: a relay whose send succeeded and whose receive_response failed has
\* returned the sentinel, the very value a send failure gives, and no relay
\* has panicked.
C2_ResponseFailureSentinel ==
    \A r \in Relays :
        /\ pc[r] # "Panicked"
        /\ pc[r] = "ResponseFailed" =>
            /\ req_id[r] \in Tokens
            /\ answers[req_id[r]].st = "err"
            /\ reply[r] = Sentinel
            /\ \A r2 \in Relays : pc[r2] = "SendFailed" => reply[r2] = reply[r]
            /\ replies[r] = 1

C2_Witness ==
    \E r, r2 \in Relays :
        /\ pc[r] = "ResponseFailed"
        /\ pc[r2] = "SendFailed"
        /\ now > 0

\* The request has integer-valued fields within the i64 range.
IntegerValued(q) ==
    /\ q.x.k = "fin" /\ q.x.twice % 2 = 0
    /\ q.y.k = "fin" /\ q.y.twice % 2 = 0

\* The integer v is a value an f32 can hold.
IsF32(v) == v % Ulp(Abs(v)) = 0

\* The f32 f is an f32 nearest to the integer s, and of two equally near the
\* one with the even mantissa.  (Around the sums of the model, |s| < 2^26,
\* neighbouring f32 values are at most 4 apart.)
NearestF32(f, s) ==
    /\ f.k = "fin"
    /\ f.twice % 2 = 0
    /\ LET v == f.twice \div 2 IN
        /\ IsF32(v)
        /\ \A w \in (s - 4)..(s + 4) :
            IsF32(w) =>
                \/ Abs(w - s) > Abs(v - s)
                \/ w = v
                \/ Abs(w - s) = Abs(v - s) /\ (v \div Ulp(Abs(v))) % 2 = 0

\* C3, as claimed: for a request with integer-valued fields the request sent
\* is {a = x, b = y}, and a success with sum s returns a present timestamp
\* and x equal to s.
C3_SumReturnedExactly ==
    \A r \in Relays :
        (pc[r] = "Succeeded" /\ IntegerValued(req[r])) =>
            /\ wire[req_id[r]] = [a |-> I64(req[r].x.twice \div 2),
                                  b |-> I64(req[r].y.twice \div 2)]
            /\ reply[r].timestamp.some
            /\ reply[r].x = Fin(2 * answers[req_id[r]].sum.v)

\* C3, amended: for a request with integer-valued fields the request sent is
\* {a = x, b = y}, and a success with sum s returns a present timestamp and
\* x equal to the f32 nearest to s, which is s itself when |s| <= 2^24.
C3_SumReturnedRounded ==
    \A r \in Relays :
        IntegerValued(req[r]) =>
            /\ req_id[r] \in Tokens =>
                wire[req_id[r]] = [a |-> I64(req[r].x.twice \div 2),
                                   b |-> I64(req[r].y.twice \div 2)]
            /\ pc[r] = "Succeeded" =>
                LET s == answers[req_id[r]].sum.v IN
                /\ reply[r].timestamp.some
                /\ NearestF32(reply[r].x, s)
                /\ Abs(s) <= 16777216 => reply[r].x = Fin(2 * s)

C3_Witness ==
    \E r, r2 \in Relays :
        /\ pc[r] = "Succeeded"
        /\ req[r] = [x |-> Fin(6), y |-> Fin(8)]
        /\ answers[req_id[r]].sum = I64(7)
        /\ pc[r2] = "Succeeded"
        /\ IntegerValued(req[r2])
        /\ answers[req_id[r2]].sum = I64(16777217)

\* C4: a relay in a terminal state has returned exactly one OutboundResponse,
\* a relay before it none, no relay ever more than one; no relay has panicked
\* and the provider goes on serving.
C4_ExactlyOneResponse ==
    \A r \in Relays :
        /\ pc[r] # "Panicked"
        /\ pc[r] \in Terminal => (replies[r] = 1 /\ reply[r] # NoReply)
        /\ pc[r] = "Done" => replies[r] = 1
        /\ pc[r] \notin Terminal \cup {"Done"} => (replies[r] = 0 /\ reply[r] = NoReply)
        /\ pc[r] # "Idle" => (mainPc = "keep_running" /\ provider = "serving")

C4_Witness ==
    \E r, r2 \in Relays :
        /\ pc[r] = "SendFailed"
        /\ pc[r2] = "ResponseFailed"

\* C5, as claimed: a relay that has been scheduled ends in a terminal state.
C5_RelayTerminates ==
    \A r \in Relays : (pc[r] = "Received") ~> (pc[r] \in Terminal)

\* C5, amended: a relay that has been scheduled ends in a terminal state or
\* comes to wait for a response the service has not settled; and once the
\* service has settled it (a response or an error) the relay ends in a
\* terminal state.
C5_RelayTerminatesOnceAnswered ==
    /\ \A r \in Relays : (pc[r] = "Received") ~> (pc[r] \in Terminal \/ Blocked(r))
    /\ \A r \in Relays :
        (pc[r] = "AwaitingResponse" /\ ~Blocked(r)) ~> (pc[r] \in Terminal)

C5_Witness ==
    \E r, r2 \in Relays :
        /\ pc[r] = "Succeeded"
        /\ Blocked(r2)

\* C6: relays running together hold different tokens, each token carries its
\* own relay's request, and what a relay returns is built from the answer to
\* its own token: a success from that answer's sum, a response failure from
\* that answer's error.
C6_NoCrossTalk ==
    \A r \in Relays :
        /\ \A r2 \in Relays : (r2 # r /\ req_id[r] # 0) => req_id[r2] # req_id[r]
        /\ req_id[r] \in Tokens => wire[req_id[r]] = ros_request[r]
        /\ pc[r] = "Succeeded" =>
            /\ answers[req_id[r]].st = "ok"
            /\ reply[r].x = CastI64ToF32(answers[req_id[r]].sum)
            /\ replies[r] = 1
        /\ pc[r] = "ResponseFailed" =>
            /\ answers[req_id[r]].st = "err"
            /\ replies[r] = 1

C6_Witness ==
    /\ \A r \in Relays : pc[r] = "Succeeded"
    /\ req_id[1] = 2
    /\ \E r \in Relays : answers[req_id[r]].sum # answers[req_id[1]].sum

\* C7: a relay makes at most one send and at most one receive_response in its
\* whole life, and each request fails at most once.
C7_SingleAttempt ==
    /\ \A r \in Relays :
        /\ sendCalls[r] <= 1
        /\ recvCalls[r] <= sendCalls[r]
        /\ pc[r] \in {"SendFailed", "ResponseFailed"} => sendCalls[r] = 1
        /\ pc[r] = "SendFailed" => recvCalls[r] = 0
    /\ failures <= accepted

C7_Witness ==
    \E r, r2 \in Relays :
        /\ pc[r] = "Done" /\ recvCalls[r] = 0
        /\ pc[r2] = "Done" /\ recvCalls[r2] = 1
        /\ failures = 2

\* The steps in which a relay fails.
FailureStep == failures' > failures

\* C8: a failing relay changes nothing but itself: main, the provider, the
\* spin task, the client and the other relays are as they were, so the
\* process goes on serving; a later request is accepted, and what a relay
\* returns follows from the answer to its own request whatever failed before.
C8_FailuresAbsorbed ==
    /\ [][FailureStep =>
            /\ UNCHANGED <<mainVars, clientVars, accepted>>
            /\ \E r \in Relays :
                /\ pc'[r] \in {"SendFailed", "ResponseFailed"}
                /\ \A r2 \in Relays \ {r} :
                    /\ pc'[r2] = pc[r2]
                    /\ reply'[r2] = reply[r2]
                    /\ req_id'[r2] = req_id[r2]]_vars
    /\ [](failures > 0 =>
            /\ mainPc = "keep_running"
            /\ provider = "serving"
            /\ spinner = "running"
            /\ accepted < MaxRequests => ENABLED (\E q \in InboundRequests : Receive(q))
            /\ \A r \in Relays :
                pc[r] = "Succeeded" =>
                    reply[r] = OkArm(answers[req_id[r]].sum, reply[r].timestamp.t).value)

C8_Witness ==
    /\ failures = 1
    /\ pc[1] = "Done"
    /\ pc[2] = "Succeeded"

\* C9: when a setup step has failed no background task is running and no
\* request has been handled, and the failure is an error main returns, never
\* a panic.
C9_NoPartialService ==
    /\ mainPc # "panicked"
    /\ mainPc = "aborted" => (spinner = "none" /\ accepted = 0)

\* C10: the identifier returned holds only characters of [A-Za-z0-9_],
\* starts with "ros2_" and has at most 256 characters.
C10_IdentifierWellFormed ==
    ident # NoIdent =>
        /\ \A i \in 1..Len(ident) :
            \/ ident[i] \in 48..57
            \/ ident[i] \in 65..90
            \/ ident[i] \in 97..122
            \/ ident[i] = 95
        /\ Len(ident) >= 5
        /\ SubSeq(ident, 1, 5) = <<114, 111, 115, 50, 95>>
        /\ Len(ident) <= 256

C10_Witness ==
    /\ ident # NoIdent
    /\ Len(input) > 1000
    /\ \E i \in 1..Len(input) : input[i] > 127
    /\ Len(ident) = 256

\* Both calls of a pair have returned, on two different arguments.
PairDone == ident # NoIdent /\ ident2 # NoIdent /\ input # input2

\* C11: two different short arguments never give the same identifier.
C11_ShortInputsNeverCollide == PairDone => ident # ident2

\* The sanitized and truncated segment of the identifier built for s.
SegmentOf(s) ==
    Truncate(Sanitized(s), max_sanitized_length(to_string(Checksum(s))))

\* C12: two different arguments give the same identifier only if their
\* sanitized and truncated segments are equal and their checksums are equal.
C12_CollisionOnlyOnEqualParts ==
    (PairDone /\ ident = ident2) =>
        /\ SegmentOf(input) = SegmentOf(input2)
        /\ Checksum(input) = Checksum(input2)

\* C13: when the sanitized string has more characters than
\* 256 - len(prefix) - len(checksum), the identifier is the prefix, the first
\* that many sanitized characters and the checksum of the whole input, 256
\* characters in all; for 1000 non-ASCII characters the segment between
\* prefix and checksum holds underscores only.
C13_TruncatedToBudget ==
    ident # NoIdent =>
        LET checksum == to_string(Checksum(input))
            budget == 256 - 5 - Len(checksum)
        IN Len(input) > budget =>
            /\ Len(ident) = 256
            /\ SubSeq(ident, 1, 5) = <<114, 111, 115, 50, 95>>
            /\ \A i \in 1..budget :
                  ident[5 + i] = IF \/ input[i] \in 48..57
                                    \/ input[i] \in 65..90
                                    \/ input[i] \in 97..122
                                 THEN input[i] ELSE 95
            /\ SubSeq(ident, 5 + budget + 1, 256) = checksum
            /\ (Len(input) = 1000 /\ \A i \in 1..1000 : input[i] > 127) =>
                  \A i \in 6..(5 + budget) : ident[i] = 95

C13_Witness ==
    /\ ident # NoIdent
    /\ Len(input) = 1000
    /\ \A i \in 1..1000 : input[i] > 127
    /\ Len(ident) = 256
    /\ \A i \in 6..246 : ident[i] = 95

\* C14: the value a relay returned has no timestamp exactly when the relay
\* ended in SendFailed or ResponseFailed; a relay that succeeded with sum 0
\* returned x = 0 with a timestamp, the sentinel but for the timestamp.
C14_TimestampAbsentIffFailed ==
    \A r \in Relays :
        pc[r] \in Terminal =>
            /\ reply[r].timestamp = None
                  <=> pc[r] \in {"SendFailed", "ResponseFailed"}
            /\ (pc[r] = "Succeeded" /\ answers[req_id[r]].sum = I64(0)) =>
                  /\ reply[r].x = Fin(0)
                  /\ reply[r].timestamp.some
                  /\ reply[r] # Sentinel
                  /\ [reply[r] EXCEPT !.timestamp = None] = Sentinel

C14_Witness ==
    \E r, r2 \in Relays :
        /\ pc[r] = "Succeeded"
        /\ answers[req_id[r]].sum = I64(0)
        /\ reply[r].x = Fin(0)
        /\ pc[r2] \in {"SendFailed", "ResponseFailed"}

\* A relay that has called async_receive_response did so once, after its one
\* send had returned a token, on that token, under which its request went.
ReceiveFollowsSend ==
    \A r \in Relays :
        /\ pc[r] \in {"AwaitingResponse", "Succeeded", "ResponseFailed"} =>
              /\ sendCalls[r] = 1
              /\ recvCalls[r] = 1
              /\ req_id[r] \in Tokens
              /\ AwaitedToken(r) = req_id[r]
              /\ wire[req_id[r]] = ros_request[r]
        /\ pc[r] \in {"Idle", "Received", "Converted", "Sent", "SendFailed"} =>
              recvCalls[r] = 0

\* The steps of the chain Received, Converted, Sent, AwaitingResponse,
\* terminal ("Idle" and "Done": before the request, after the reply).
ChainEdges ==
    {<<"Idle", "Received">>, <<"Received", "Converted">>,
     <<"Converted", "Sent">>, <<"Sent", "AwaitingResponse">>}
        \cup {<<"AwaitingResponse", t>> : t \in Terminal}
        \cup {<<t, "Done">> : t \in Terminal}

\* The chain, where SendFailed is entered from Sent and from nowhere else.
RelayEdges ==
    (ChainEdges \ {<<"AwaitingResponse", "SendFailed">>})
        \cup {<<"Sent", "SendFailed">>}

\* C15 as stated: every relay moves along Received, Converted, Sent,
\* AwaitingResponse, terminal, one state at a time, and
\* async_receive_response is called only after the send succeeded, with the
\* token the send returned.
C15_StatesInChainOrder ==
    [][/\ \A r \in Relays : pc'[r] # pc[r] => <<pc[r], pc'[r]>> \in ChainEdges
       /\ ReceiveFollowsSend']_vars

\* C15, amended: the same, except that a relay whose send fails goes from
\* Sent straight to SendFailed, never through AwaitingResponse.
C15_StatesInRelayOrder ==
    [][/\ \A r \in Relays : pc'[r] # pc[r] => <<pc[r], pc'[r]>> \in RelayEdges
       /\ ReceiveFollowsSend']_vars

C15_Witness ==
    \E r, r2 \in Relays :
        /\ pc[r] = "Succeeded"
        /\ req_id[r] \in Tokens
        /\ wire[req_id[r]] = ros_request[r]
        /\ recvCalls[r] = 1
        /\ pc[r2] = "SendFailed"
        /\ recvCalls[r2] = 0

\* C16: the timestamp of a successful reply is the clock's reading in the
\* step that completes the relay, a step taken with the downstream response
\* already there; no earlier step of the relay sets the reply, and the clock
\* never runs backwards, so the timestamp is not earlier than the time the
\* response was received.
C16_TimestampAtCompletion ==
    [][/\ now' >= now
       /\ \A r \in Relays :
            /\ (pc'[r] = "Succeeded" /\ pc[r] # "Succeeded") =>
                  /\ pc[r] = "AwaitingResponse"
                  /\ answers[req_id[r]].st = "ok"
                  /\ reply[r] = NoReply
                  /\ reply'[r].timestamp = Some(now)
                  /\ now' = now
            /\ reply'[r] # reply[r] =>
                  \/ pc[r] \in {"Sent", "AwaitingResponse"} /\ pc'[r] \in Terminal
                  \/ pc[r] \in Terminal /\ pc'[r] = "Done"]_vars

C16_Witness ==
    \E r, r2 \in Relays :
        /\ pc[r] = "Succeeded"
        /\ reply[r].timestamp = Some(1)
        /\ pc[r2] = "Succeeded"
        /\ reply[r2].timestamp = Some(0)
        /\ now = 1

\* sanitize_and_checksum("a." U+00E9 "7") written out: "ros2_a__791144612".
ExpectedClientName ==
    <<114, 111, 115, 50, 95, 97, 95, 95, 55, 57, 49, 49, 52, 52, 54, 49, 50>>

\* C17: one client binding is created, before serving begins, under the
\* sanitized name of REQUESTER_ENDPOINT; every relay holds that binding, and
\* neither the name nor the binding changes once set.
C17_OneClientBinding ==
    [][/\ ros_client_name # NoIdent => ros_client_name' = ros_client_name
       /\ proxy_ros_client # NoClient => proxy_ros_client' = proxy_ros_client
       /\ ros_client_name' \in {NoIdent, ExpectedClientName}
       /\ proxy_ros_client' \in {NoClient, ros_client_name'}
       /\ provider' = "serving" => proxy_ros_client' = ExpectedClientName
       /\ proxy_ros_client' # proxy_ros_client => accepted' = 0
       /\ \A r \in Relays :
            pc'[r] \notin {"Idle", "Done"} =>
                /\ client'[r] = proxy_ros_client'
                /\ client'[r] = ExpectedClientName]_vars

C17_Witness ==
    \E r, r2 \in Relays :
        /\ r # r2
        /\ pc[r] = "AwaitingResponse"
        /\ pc[r2] = "Sent"
        /\ client[r] = ExpectedClientName
        /\ client[r2] = client[r]
        /\ proxy_ros_client = client[r]

\* The number of decimal digits of v, for v below 2^31.
DecimalDigits(v) ==
    IF v >= 1000000000 THEN 10
    ELSE CHOOSE d \in 1..9 : v < 10^d /\ (d = 1 \/ v >= 10^(d - 1))

\* C18: the budget 256 - len(prefix) - len(checksum) is never negative: the
\* checksum is below 1000000007 and has at most 10 digits, so the budget is
\* at least 241, the case len(prefix) + len(checksum) >= 256 (where the
\* segment would have to be empty) does not arise, and the segment of the
\* identifier has the smaller of the input's length and the budget.
C18_BudgetNeverUnderflows ==
    ident # NoIdent =>
        LET sum == Checksum(input)
            digits == DecimalDigits(sum)
            budget == max_sanitized_length(to_string(sum))
            segment == Len(ident) - 5 - digits
        IN /\ sum \in 0..1000000006
           /\ digits <= 10
           /\ 5 + digits < 256
           /\ budget = 256 - 5 - digits
           /\ budget >= 241
           /\ segment = IF Len(input) > budget THEN budget ELSE Len(input)
           /\ 5 + digits >= 256 => segment = 0

C18_Witness ==
    /\ ident # NoIdent
    /\ Checksum(input) >= 1000000000
    /\ max_sanitized_length(to_string(Checksum(input))) = 241
    /\ Len(input) > 241
    /\ Len(ident) = 256

\* The value of sum after each turn of the checksum loop over bs[lo..hi],
\* entered with sum: element k is the checksum of the first k bytes.
RECURSIVE RunningSums(_, _, _, _)
RunningSums(bs, lo, hi, sum) ==
    IF lo > hi THEN <<>>
    ELSE IF lo = hi THEN <<ChecksumStep(sum, bs[lo])>>
    ELSE LET mid == (lo + hi) \div 2
             left == RunningSums(bs, lo, mid, sum)
         IN left \o RunningSums(bs, mid + 1, hi, left[Len(left)])

\* The checksum of s differs from that of every proper prefix of its bytes
\* (the empty prefix has checksum 0).
DiffersFromPrefixes(s) ==
    LET bs == bytes(s)
        n == Len(bs)
        sums == RunningSums(bs, 1, n, 0)
    IN n > 0 => /\ sums[n] = Checksum(s)
                /\ sums[n] # 0
                /\ \A k \in 1..(n - 1) : sums[k] # sums[n]

HasMultiByte(s) == \E i \in 1..Len(s) : s[i] > 127

\* C19 as stated: the checksum of every string that holds a multi-byte
\* character differs from the checksum of every proper prefix of its bytes.
C19_DiffersFromEveryPrefix ==
    (ident # NoIdent /\ HasMultiByte(input)) => DiffersFromPrefixes(input)

\* C19, amended: the same for strings of at most 5 bytes, where the sum
\* never reaches the modulus.
C19_ShortDiffersFromEveryPrefix ==
    (/\ ident # NoIdent
     /\ Len(input) <= 5
     /\ HasMultiByte(input)
     /\ Len(bytes(input)) <= 5) =>
        DiffersFromPrefixes(input)

C19_Witness ==
    /\ ident # NoIdent
    /\ Len(input) = 2
    /\ input[1] < 128
    /\ input[2] > 65535
    /\ Len(bytes(input)) = 5
    /\ DiffersFromPrefixes(input)

\* The relay has built its downstream request and still holds it.
HasConverted(r) ==
    pc[r] \in {"Converted", "Sent", "AwaitingResponse"} \cup Terminal

\* i is f with its fraction dropped (towards zero), or the end of the i64
\* range on f's side when f is beyond the range, or 0 when f is NaN.
SaturatingCast(f, i) ==
    CASE f.k = "nan" -> i = I64(0)
      [] f.k = "pow63" -> i = IF f.neg THEN I64_MIN ELSE I64_MAX
      [] OTHER -> /\ i.k = "int"
                  /\ Abs(2 * i.v) <= Abs(f.twice)
                  /\ Abs(f.twice) - Abs(2 * i.v) < 2
                  /\ (f.twice >= 0 => i.v >= 0) /\ (f.twice <= 0 => i.v <= 0)

\* The Converted step is never refused, and the relay goes on to send.
NeverRejected ==
    \A r \in Relays :
        /\ pc[r] # "Panicked"
        /\ pc[r] = "Received" => ENABLED Convert(r)
        /\ pc[r] = "Converted" => ENABLED Send(r)

\* C20 as stated: no request is rejected at the Converted step, and each
\* field is cast with the fraction dropped and values beyond the i64 range
\* wrapped around.
C20_CastWraps ==
    /\ NeverRejected
    /\ \A r \in Relays :
        HasConverted(r) =>
            /\ ros_request[r].a = WrapF32ToI64(req[r].x)
            /\ ros_request[r].b = WrapF32ToI64(req[r].y)

\* C20, amended: no request is rejected at the Converted step, and each
\* field is cast with the fraction dropped and values beyond the i64 range
\* saturated to the nearer end of the range.
C20_CastSaturates ==
    /\ NeverRejected
    /\ \A r \in Relays :
        HasConverted(r) =>
            /\ SaturatingCast(req[r].x, ros_request[r].a)
            /\ SaturatingCast(req[r].y, ros_request[r].b)

C20_Witness ==
    \E r \in Relays :
        /\ pc[r] = "Sent"
        /\ req[r] = [x |-> Fin(-5), y |-> Pow63(FALSE)]
        /\ ros_request[r] = [a |-> I64(-2), b |-> I64_MAX]

=============================================================================
